---- MODULE Spec2Model ----
(***************************************************************************)
(* Model of src/app.py: the headline ingestion (fetch_headlines), the      *)
(* threshold classification (score_sentiment.lab) and the windowed,        *)
(* bucketed and per-source aggregations computed by main.                  *)
(*                                                                         *)
(* Text is a sequence of one-character strings, time is an integer number  *)
(* of seconds since the epoch (UTC), a compound score is an integer number *)
(* of half slider steps (0.005), and a mean is an exact fraction <<n, d>>. *)
(***************************************************************************)
EXTENDS Integers, Sequences, FiniteSets, TLC

VARIABLES
    pc,              \* position of the run
    sources,         \* fetch_headlines: the dict argument, as its key order
    feed,            \* what feedparser.parse does for each source's url
    fetch_now,       \* fetch_headlines: now_utc, sampled once per batch
    df,              \* the frame returned by fetch_headlines; main's df
    selected,        \* main: the ticked sources
    kw,              \* main: the stripped keyword
    neg_thresh,      \* main: the "Negative <=" slider
    pos_thresh,      \* main: the "Positive >=" slider
    vader,           \* what sia.polarity_scores gives as compound, per title
    scored,          \* main: the frame returned by score_sentiment
    lookback_hours,  \* main: the lookback slider
    bin_size,        \* main: the bin size, in seconds
    exclude_imputed, \* main: the checkbox
    now_utc,         \* main: now_utc of the time series block
    tmp,             \* main: the windowed frame, with its bucket column
    ts,              \* main: the bucket series
    by_src           \* main: the per-source table

fetchVars == <<sources, feed, fetch_now>>

sidebarVars == <<selected, kw, neg_thresh, pos_thresh>>

aggVars == <<lookback_hours, bin_size, exclude_imputed, now_utc, tmp, ts, by_src>>

vars == <<pc, fetchVars, df, sidebarVars, vader, scored, aggVars>>

---------------------------------------------------------------------------
(* Bounds of the model *)

MaxEntries == 1      \* entries a feed returns, in the runs of fetch_headlines
MaxSteps == 1        \* slider steps on either side of zero
MaxMainEntries == 1  \* entries a feed returns, in the runs of main
MaxScoreRows == 3    \* rows of the frame passed to score_sentiment alone
MaxRows == 4         \* rows of the frames that are bucketed
MaxWindowRows == 3   \* rows of the frames that are windowed
MaxLookback == 2     \* hours of the lookback slider

---------------------------------------------------------------------------
(* Program constants *)

SOURCES == <<"BBC News (Top stories)", "Reuters (World)", "The Guardian (UK)">>

FeedCap == 50

NaT == -1

---------------------------------------------------------------------------
(* Helpers *)

Min(a, b) == IF a <= b THEN a ELSE b

Range(s) == {s[i] : i \in 1..Len(s)}

SeqsUpTo(S, n) == UNION {[1..m -> S] : m \in 0..n}

IsWhitespace(c) == c = " "

RECURSIVE LStrip(_)
LStrip(s) ==
    IF s # <<>> /\ IsWhitespace(Head(s)) THEN LStrip(Tail(s)) ELSE s

RECURSIVE RStrip(_)
RStrip(s) ==
    IF s # <<>> /\ IsWhitespace(s[Len(s)])
    THEN RStrip(SubSeq(s, 1, Len(s) - 1))
    ELSE s

\* str.strip()
Strip(s) == RStrip(LStrip(s))

\* getattr(e, name, default) on a feed entry, whose keys are its attributes
GetAttr(e, name, default) == IF name \in DOMAIN e THEN e[name] ELSE default

---------------------------------------------------------------------------
(* Raw published strings: the empty string, a text that is no date, or a   *)
(* date text giving a wall-clock time and the offset of its zone from UTC. *)

EmptyRaw == [kind |-> "empty", wall |-> 0, off |-> 0]

GarbageRaw == [kind |-> "garbage", wall |-> 0, off |-> 0]

DateRaw(w, o) == [kind |-> "date", wall |-> w, off |-> o]

\* pd.to_datetime(x, errors="coerce", utc=True) on one element
ToDatetime(raw) ==
    IF raw.kind = "date" THEN raw.wall - raw.off ELSE NaT

IsNa(t) == t = NaT

FillNaNone(t, v) == t

FillNa(t, v) == IF IsNa(t) THEN v ELSE t

---------------------------------------------------------------------------
(* fetch_headlines *)

\* feed.entries[:50]
CapEntries(es) == SubSeq(es, 1, Min(Len(es), FeedCap))

\* lines 34-41: the loop over the entries of one feed
RECURSIVE EntryRows(_, _)
EntryRows(name, es) ==
    IF es = <<>> THEN <<>>
    ELSE LET e == Head(es)
             title == Strip(GetAttr(e, "title", <<>>))
             link == GetAttr(e, "link", <<>>)
             published ==
                 GetAttr(e, "published", GetAttr(e, "updated", EmptyRaw))
             rest == EntryRows(name, Tail(es))
         IN  IF title # <<>>
             THEN <<[source |-> name, title |-> title, link |-> link,
                     published |-> published]>> \o rest
             ELSE rest

\* a variant of the loop in which a raising source ends the loop
RECURSIVE CollectRowsAbort(_, _)
CollectRowsAbort(srcs, fd) ==
    IF srcs = <<>> THEN <<>>
    ELSE IF fd[Head(srcs)].raised
         THEN <<>>
         ELSE EntryRows(Head(srcs), CapEntries(fd[Head(srcs)].entries))
                  \o CollectRowsAbort(Tail(srcs), fd)

\* lines 28-41: the loop over the sources; a source whose parse raises is
\* skipped by the except clause
RECURSIVE CollectRows(_, _)
CollectRows(srcs, fd) ==
    IF srcs = <<>> THEN <<>>
    ELSE IF fd[Head(srcs)].raised
         THEN CollectRows(Tail(srcs), fd)
         ELSE EntryRows(Head(srcs), CapEntries(fd[Head(srcs)].entries))
                  \o CollectRows(Tail(srcs), fd)

\* a variant of drop_duplicates with keep="last"
DropDuplicatesKeepLast(rs) ==
    LET keep == {i \in 1..Len(rs) :
                    \A j \in (i + 1)..Len(rs) : rs[j].title # rs[i].title}
        F[i \in 0..Len(rs)] ==
            IF i = 0 THEN <<>>
            ELSE IF i \in keep THEN Append(F[i - 1], rs[i]) ELSE F[i - 1]
    IN  F[Len(rs)]

\* DataFrame.drop_duplicates(subset=["title"]), keep="first" by default
DropDuplicates(rs) ==
    LET keep == {i \in 1..Len(rs) :
                    \A j \in 1..(i - 1) : rs[j].title # rs[i].title}
        F[i \in 0..Len(rs)] ==
            IF i = 0 THEN <<>>
            ELSE IF i \in keep THEN Append(F[i - 1], rs[i]) ELSE F[i - 1]
    IN  F[Len(rs)]

\* lines 44-51: the two timestamp columns; now is sampled once
Normalise(rs, now) ==
    [i \in 1..Len(rs) |->
        LET dt == ToDatetime(rs[i].published)
        IN  [source |-> rs[i].source, title |-> rs[i].title,
             link |-> rs[i].link, published |-> rs[i].published,
             imputed_time |-> IsNa(dt),
             published_dt |-> FillNa(dt, now)]]

FetchHeadlines(srcs, fd, now) ==
    Normalise(DropDuplicates(CollectRows(srcs, fd)), now)

---------------------------------------------------------------------------
(* Inputs of fetch_headlines *)

\* entries a feed may hold
EntryPool ==
    { [title |-> <<"a">>, link |-> <<"u">>, published |-> DateRaw(7200, 3600)],
      [title |-> <<" ", "a", " ">>, published |-> EmptyRaw],
      [title |-> <<"A">>, link |-> <<"v">>, published |-> GarbageRaw],
      [title |-> <<" ">>, published |-> DateRaw(3600, 0)],
      [link |-> <<"w">>, updated |-> DateRaw(3600, 0)],
      [title |-> <<"b">>, updated |-> DateRaw(1800, -1800)] }

\* what feedparser.parse can do: raise, or return a feed with entries
FeedOutcomes(pool, n) ==
    {[raised |-> TRUE, entries |-> <<>>]}
        \cup {[raised |-> FALSE, entries |-> es] : es \in SeqsUpTo(pool, n)}

Rank(name) == CHOOSE i \in 1..Len(SOURCES) : SOURCES[i] = name

\* the dicts main builds: SOURCES restricted to the ticked names, in order
SourceDicts ==
    {s \in SeqsUpTo(Range(SOURCES), Len(SOURCES)) :
        \A i, j \in 1..Len(s) : i < j => Rank(s[i]) < Rank(s[j])}

FetchNows == {5000, 5001}

---------------------------------------------------------------------------
(* The rest of the state, where a specification does not use it *)

IdleSidebar ==
    /\ selected = <<>>
    /\ kw = <<>>
    /\ neg_thresh = 0
    /\ pos_thresh = 0

IdleScore ==
    /\ vader = <<>>
    /\ scored = <<>>

IdleAgg ==
    /\ lookback_hours = 0
    /\ bin_size = 0
    /\ exclude_imputed = FALSE
    /\ now_utc = NaT
    /\ tmp = <<>>
    /\ ts = <<>>
    /\ by_src = <<>>

---------------------------------------------------------------------------
(* SpecFetch: one call of fetch_headlines *)

InitFetch ==
    /\ pc = "fetch"
    /\ sources \in SourceDicts
    /\ feed \in [Range(sources) -> FeedOutcomes(EntryPool, MaxEntries)]
    /\ fetch_now = NaT
    /\ df = <<>>
    /\ IdleSidebar
    /\ IdleScore
    /\ IdleAgg

FetchCall(now) ==
    /\ pc = "fetch"
    /\ fetch_now' = now
    /\ df' = FetchHeadlines(sources, feed, now)
    /\ pc' = "fetched"
    /\ UNCHANGED <<sources, feed, sidebarVars, vader, scored, aggVars>>

NextFetch == \E now \in FetchNows : FetchCall(now)

SpecFetch == InitFetch /\ [][NextFetch]_vars

\* the entries fetch_headlines reads: (source position, entry position)
\* of every entry within the cap whose stripped title is not empty
Encountered ==
    {p \in (1..Len(sources)) \X (1..FeedCap) :
        /\ ~feed[sources[p[1]]].raised
        /\ p[2] <= Len(feed[sources[p[1]]].entries)
        /\ Strip(GetAttr(feed[sources[p[1]]].entries[p[2]], "title", <<>>)) # <<>>}

EntryAt(p) == feed[sources[p[1]]].entries[p[2]]

TitleAt(p) == Strip(GetAttr(EntryAt(p), "title", <<>>))

\* source-iteration-then-entry order
Before(p, q) == p[1] < q[1] \/ (p[1] = q[1] /\ p[2] < q[2])

FirstOccurrence(p) ==
    \A q \in Encountered : TitleAt(q) = TitleAt(p) => ~Before(q, p)

\* C1: the batch holds no two records of the same stripped title, and for
\* every title read from the feeds exactly the first occurrence, in source
\* then entry order, survives, with the name of its source
C1_DedupKeepsFirst ==
    pc = "fetched" =>
        /\ \A i, j \in 1..Len(df) : i # j => df[i].title # df[j].title
        /\ \A p \in Encountered :
              FirstOccurrence(p) =>
                  \E i \in 1..Len(df) :
                      /\ df[i].title = TitleAt(p)
                      /\ df[i].source = sources[p[1]]
                      /\ df[i].published =
                            GetAttr(EntryAt(p), "published",
                                    GetAttr(EntryAt(p), "updated", EmptyRaw))
        /\ \A i \in 1..Len(df) : \E p \in Encountered : df[i].title = TitleAt(p)

\* a title of the first source occurs again in a later source, and is dropped
C1_Witness ==
    /\ pc = "fetched"
    /\ \E p, q \in Encountered :
          /\ p[1] < q[1]
          /\ TitleAt(p) = TitleAt(q)
          /\ EntryAt(p) # EntryAt(q)
          /\ FirstOccurrence(p)
          /\ \E i \in 1..Len(df) : df[i].source = sources[p[1]] /\ df[i].title = TitleAt(p)

Raising == {i \in 1..Len(sources) : feed[sources[i]].raised}

WithoutRaising == SelectSeq(sources, LAMBDA n : ~feed[n].raised)

\* C2: a source whose parse raises contributes nothing and the batch is the
\* one the other sources alone give
C2_FailureIsolated ==
    pc = "fetched" =>
        /\ \A i \in 1..Len(df) : ~feed[df[i].source].raised
        /\ df = FetchHeadlines(WithoutRaising, feed, fetch_now)
        /\ \A p \in Encountered : \E i \in 1..Len(df) : df[i].title = TitleAt(p)

\* the first source raised and a later one has a record in the batch
C2_Witness ==
    /\ pc = "fetched"
    /\ 1 \in Raising
    /\ \E i \in 1..Len(df) : Rank(df[i].source) > Rank(sources[1])

\* C3: published_dt is never missing; imputed_time marks exactly the empty
\* and the unparseable raw strings, whose published_dt is the one now of the
\* batch; the others carry the parsed time in UTC
C3_Imputation ==
    pc = "fetched" =>
        \A i \in 1..Len(df) :
            /\ df[i].published_dt # NaT
            /\ df[i].imputed_time <=> df[i].published.kind \in {"empty", "garbage"}
            /\ df[i].imputed_time => df[i].published_dt = fetch_now
            /\ ~df[i].imputed_time =>
                   df[i].published_dt = df[i].published.wall - df[i].published.off

\* the batch holds an empty, an unparseable and a parseable raw string
C3_Witness ==
    /\ pc = "fetched"
    /\ \E i, j, l \in 1..Len(df) :
          /\ df[i].published.kind = "empty" /\ df[i].imputed_time
          /\ df[j].published.kind = "garbage" /\ df[j].imputed_time
          /\ df[i].published_dt = df[j].published_dt
          /\ df[l].published.kind = "date" /\ ~df[l].imputed_time
          /\ df[l].published.off # 0

---------------------------------------------------------------------------
(* score_sentiment *)

\* a variant of lab whose negative boundary is exclusive
LabStrict(c, neg, pos) ==
    IF c < neg THEN "negative"
    ELSE IF c >= pos THEN "positive"
    ELSE "neutral"

\* lines 60-65
Lab(c, neg, pos) ==
    IF c <= neg THEN "negative"
    ELSE IF c >= pos THEN "positive"
    ELSE "neutral"

TITLE_MAP == [positive |-> "Positive", neutral |-> "Neutral", negative |-> "Negative"]

\* lines 56-69; of the four scores of polarity_scores only compound is kept,
\* the other three are displayed and exported but never read
ScoreSentiment(d, neg, pos, v) ==
    [i \in 1..Len(d) |->
        LET c == v[d[i].title]
            l == Lab(c, neg, pos)
        IN  [compound |-> c, label |-> l, Label |-> TITLE_MAP[l]] @@ d[i]]

Score ==
    /\ pc = "score"
    /\ scored' = ScoreSentiment(df, neg_thresh, pos_thresh, vader)
    /\ pc' = "scored"
    /\ UNCHANGED <<fetchVars, df, sidebarVars, vader, aggVars>>

---------------------------------------------------------------------------
(* Compound scores and thresholds.  One unit is half a slider step, 0.005. *)

SliderStep == 2

SliderSteps == 100

\* a variant of the "Negative <=" slider that reaches above zero
NegSliderValuesWide ==
    {SliderStep * i : i \in -Min(MaxSteps, SliderSteps)..1}

\* line 84: from -1.00 to 0.00 in steps of 0.01
NegSliderValues ==
    {-(SliderStep * i) : i \in 0..Min(MaxSteps, SliderSteps)}

\* line 85: from 0.00 to 1.00 in steps of 0.01
PosSliderValues ==
    {SliderStep * i : i \in 0..Min(MaxSteps, SliderSteps)}

\* the thresholds score_sentiment can be called with
AnyThreshold ==
    {SliderStep * i : i \in -Min(MaxSteps, SliderSteps)..Min(MaxSteps, SliderSteps)}

\* compounds on, between and beyond the thresholds of the model
Compounds ==
    -(SliderStep * Min(MaxSteps, SliderSteps) + 1)..(SliderStep * Min(MaxSteps, SliderSteps) + 1)

\* the i-th headline of a frame built directly
TitleNo(i) == [j \in 1..i |-> "x"]

PlainRow(i, src, t, imp) ==
    [source |-> src, title |-> TitleNo(i), link |-> <<>>,
     published |-> IF imp THEN EmptyRaw ELSE DateRaw(t, 0),
     imputed_time |-> imp, published_dt |-> t]

---------------------------------------------------------------------------
(* SpecScore: one call of score_sentiment, with any pair of thresholds *)

InitScore ==
    /\ pc = "score"
    /\ sources = <<>>
    /\ feed = <<>>
    /\ fetch_now = NaT
    /\ \E n \in 1..MaxScoreRows :
          /\ df = [i \in 1..n |-> PlainRow(i, SOURCES[1], 3600, FALSE)]
          /\ vader \in [{TitleNo(i) : i \in 1..n} -> Compounds]
    /\ selected = <<>>
    /\ kw = <<>>
    /\ neg_thresh \in AnyThreshold
    /\ pos_thresh \in AnyThreshold
    /\ scored = <<>>
    /\ IdleAgg

NextScore == Score

SpecScore == InitScore /\ [][NextScore]_vars

\* C4: every compound gets exactly one label, fixed by the compound and the
\* two thresholds: negative iff compound <= neg_thresh, otherwise positive
\* iff compound >= pos_thresh, otherwise neutral
C4_LabelPolicy ==
    pc = "scored" =>
        /\ Len(scored) = Len(df)
        /\ \A i \in 1..Len(scored) :
              LET c == vader[df[i].title]
                  l == scored[i].label
              IN  /\ scored[i].compound = c
                  /\ l \in {"negative", "neutral", "positive"}
                  /\ l = "negative" <=> c <= neg_thresh
                  /\ l = "positive" <=> (c > neg_thresh /\ c >= pos_thresh)
                  /\ l = "neutral" <=> (c > neg_thresh /\ c < pos_thresh)
        /\ \A i, j \in 1..Len(scored) :
              scored[i].compound = scored[j].compound
                  => scored[i].label = scored[j].label

\* both boundaries and a value strictly between them, in one frame
C4_Witness ==
    /\ pc = "scored"
    /\ neg_thresh < 0
    /\ pos_thresh > 0
    /\ \E i, j, l \in 1..Len(scored) :
          /\ scored[i].compound = neg_thresh /\ scored[i].label = "negative"
          /\ scored[j].compound = pos_thresh /\ scored[j].label = "positive"
          /\ scored[l].compound = 0 /\ scored[l].label = "neutral"

---------------------------------------------------------------------------
(* main, up to the call of score_sentiment *)

UpperToLower == [A |-> "a", B |-> "b", C |-> "c"]

\* str.lower() on one character
Lower(c) == IF c \in DOMAIN UpperToLower THEN UpperToLower[c] ELSE c

\* re.compile(pat): an opening parenthesis that is never closed is an error;
\* the alphabet of the model has no other character special to re
RegexCompiles(pat) == \A i \in 1..Len(pat) : pat[i] # "("

\* re.search of a compiled pattern of literal characters, with IGNORECASE
RegexSearch(pat, s) ==
    \E o \in 0..(Len(s) - Len(pat)) :
        \A j \in 1..Len(pat) : Lower(s[o + j]) = Lower(pat[j])

\* lines 76-85: the widgets read before the first exit; those of lines
\* 88-90 are read by the time series block only
Sidebar(sel, text, neg, pos) ==
    /\ pc = "sidebar"
    /\ selected' = sel
    /\ kw' = Strip(text)
    /\ neg_thresh' = neg
    /\ pos_thresh' = pos
    /\ pc' = "check_selected"
    /\ UNCHANGED <<fetchVars, df, vader, scored, aggVars>>

\* lines 96-98
StopNoSources ==
    /\ pc = "check_selected"
    /\ selected = <<>>
    /\ pc' = "stopped_no_sources"
    /\ UNCHANGED <<fetchVars, df, sidebarVars, vader, scored, aggVars>>

\* lines 100-105: the call of fetch_headlines, run or answered by the cache
\* with the frame of an earlier run on the same argument
MainFetch(fd, now) ==
    /\ pc = "check_selected"
    /\ selected # <<>>
    /\ sources' = selected
    /\ feed' = fd
    /\ fetch_now' = now
    /\ df' = FetchHeadlines(selected, fd, now)
    /\ pc' = "check_empty"
    /\ UNCHANGED <<sidebarVars, vader, scored, aggVars>>

\* lines 107-109
StopNoHeadlines ==
    /\ pc = "check_empty"
    /\ df = <<>>
    /\ pc' = "stopped_no_headlines"
    /\ UNCHANGED <<fetchVars, df, sidebarVars, vader, scored, aggVars>>

\* lines 112-117: str.contains(kw, case=False) takes kw as a regular
\* expression (regex=True by default)
KeywordFilter ==
    /\ pc = "check_empty"
    /\ df # <<>>
    /\ IF kw = <<>>
       THEN /\ pc' = "score"
            /\ df' = df
       ELSE IF ~RegexCompiles(kw)
       THEN /\ pc' = "raised"
            /\ df' = df
       ELSE /\ df' = SelectSeq(df, LAMBDA r : RegexSearch(kw, r.title))
            /\ pc' = IF df' = <<>> THEN "stopped_no_match" ELSE "score"
    /\ UNCHANGED <<fetchVars, sidebarVars, vader, scored, aggVars>>

---------------------------------------------------------------------------
(* SpecMain: a run of main up to the scored frame *)

MainEntryPool ==
    { [title |-> <<"A", "b">>, link |-> <<"u">>, published |-> DateRaw(7200, 3600)],
      [title |-> <<"b">>, published |-> EmptyRaw] }

\* what the user may type in the keyword box
KeywordInputs == {<<>>, <<" ">>, <<"a">>, <<"c", " ">>, <<"(">>}

MainTitles == {Strip(e.title) : e \in MainEntryPool}

MainCompounds == {-SliderStep, 0, SliderStep}

InitMain ==
    /\ pc = "sidebar"
    /\ sources = <<>>
    /\ feed = <<>>
    /\ fetch_now = NaT
    /\ df = <<>>
    /\ IdleSidebar
    /\ vader \in [MainTitles -> MainCompounds]
    /\ scored = <<>>
    /\ IdleAgg

NextMain ==
    \/ \E sel \in SourceDicts, text \in KeywordInputs,
          neg \in NegSliderValues, pos \in PosSliderValues :
              Sidebar(sel, text, neg, pos)
    \/ StopNoSources
    \/ \E fd \in [Range(selected) -> FeedOutcomes(MainEntryPool, MaxMainEntries)],
          now \in FetchNows :
              MainFetch(fd, now)
    \/ StopNoHeadlines
    \/ KeywordFilter
    \/ Score

SpecMain == InitMain /\ [][NextMain]_vars

Terminal == {"stopped_no_sources", "stopped_no_headlines", "stopped_no_match",
             "raised", "scored"}

NoData == {"stopped_no_sources", "stopped_no_headlines", "stopped_no_match"}

\* kw occurs in s as a substring, whatever the case of the letters
HasSubstring(s, sub) ==
    \E o \in 0..(Len(s) - Len(sub)) :
        \A j \in 1..Len(sub) : Lower(s[o + j]) = Lower(sub[j])

\* no source is ticked, nothing was fetched, or the keyword is in no title
NothingToShow ==
    \/ selected = <<>>
    \/ df = <<>>
    \/ kw # <<>> /\ \A i \in 1..Len(df) : ~HasSubstring(df[i].title, kw)

\* C9: a run with no ticked source, an empty batch or a keyword that no
\* title contains ends in a "no data" stop without raising, and scoring
\* never runs on an empty frame
C9_EmptyInputStops ==
    /\ (pc \in Terminal /\ NothingToShow) => pc \in NoData
    /\ pc = "scored" => scored # <<>>

\* C10: score_sentiment is only called with neg_thresh <= 0 <= pos_thresh,
\* and a compound meets both label conditions only when both thresholds and
\* the compound are zero, where the label is negative
C10_SlidersNeverCross ==
    pc = "scored" =>
        /\ neg_thresh <= 0
        /\ 0 <= pos_thresh
        /\ \A i \in 1..Len(scored) :
              (scored[i].compound <= neg_thresh /\ scored[i].compound >= pos_thresh)
                  => /\ neg_thresh = 0
                     /\ pos_thresh = 0
                     /\ scored[i].compound = 0
                     /\ scored[i].label = "negative"

\* both sliders at zero and a headline of compound zero
C10_Witness ==
    /\ pc = "scored"
    /\ neg_thresh = 0
    /\ pos_thresh = 0
    /\ \E i \in 1..Len(scored) :
          scored[i].compound = 0 /\ scored[i].label = "negative"

---------------------------------------------------------------------------
(* Exact means *)

Abs(n) == IF n < 0 THEN -n ELSE n

RECURSIVE GCD(_, _)
GCD(a, b) == IF b = 0 THEN a ELSE GCD(b, a % b)

\* the fraction n/d, d > 0, in lowest terms
Frac(n, d) == LET g == GCD(Abs(n), d) IN <<n \div g, d \div g>>

FracAdd(a, b) == Frac(a[1] * b[2] + b[1] * a[2], a[2] * b[2])

FracLess(a, b) == a[1] * b[2] < b[1] * a[2]

RECURSIVE SumSeq(_)
SumSeq(s) == IF s = <<>> THEN 0 ELSE Head(s) + SumSeq(Tail(s))

RECURSIVE FracSum(_)
FracSum(fs) == IF fs = <<>> THEN <<0, 1>> ELSE FracAdd(Head(fs), FracSum(Tail(fs)))

\* Series.mean() of a column of compounds
Mean(s) == Frac(SumSeq(s), Len(s))

\* Series.mean() of a column of means
FracMean(fs) == LET s == FracSum(fs) IN Frac(s[1], s[2] * Len(fs))

---------------------------------------------------------------------------
(* main, the time series block and the per-source table *)

\* line 89: the offsets of the select box, in seconds
BinSeconds ==
    "1min" :> 60 @@ "5min" :> 300 @@ "15min" :> 900 @@ "30min" :> 1800 @@ "1H" :> 3600

SecondsPerHour == 3600

RollingWindow == 3

\* a variant of the window that is open at the cutoff
InWindowOpen(t, cutoff, now) == t > cutoff /\ t <= now

\* line 145
InWindow(t, cutoff, now) == t >= cutoff /\ t <= now

\* a variant of dt.floor that rounds to the nearest boundary
FloorNearest(t, bin) ==
    ((t + (BinSeconds[bin] \div 2)) \div BinSeconds[bin]) * BinSeconds[bin]

\* line 150: dt.floor(bin_size)
Floor(t, bin) == t - (t % BinSeconds[bin])

\* Python's order on the names of SOURCES, which are listed in that order
NameLess(a, b) == Rank(a) < Rank(b)

KeyLess(x, y) == NameLess(x[1], y[1]) \/ (x[1] = y[1] /\ x[2] < y[2])

\* the names in S in ascending order
RECURSIVE SortedNames(_)
SortedNames(S) ==
    IF S = {} THEN <<>>
    ELSE LET m == CHOOSE x \in S : \A y \in S \ {x} : NameLess(x, y)
         IN  <<m>> \o SortedNames(S \ {m})

\* the (source, bucket) keys in S in ascending order
RECURSIVE SortedKeys(_)
SortedKeys(S) ==
    IF S = {} THEN <<>>
    ELSE LET m == CHOOSE x \in S : \A y \in S \ {x} : KeyLess(x, y)
         IN  <<m>> \o SortedKeys(S \ {m})

\* line 151: groupby(["source", "bucket"], as_index=False)["compound"].mean(),
\* the groups in ascending order of their keys
GroupMean(t) ==
    LET keys == SortedKeys({<<t[i].source, t[i].bucket>> : i \in 1..Len(t)})
    IN  [g \in 1..Len(keys) |->
            LET members ==
                    SelectSeq(t, LAMBDA r : r.source = keys[g][1] /\ r.bucket = keys[g][2])
            IN  [source |-> keys[g][1], bucket |-> keys[g][2],
                 compound |-> Mean([i \in 1..Len(members) |-> members[i].compound])]]

\* a variant of the smoothing that rolls over the whole series
RollingUngrouped(g) ==
    [i \in 1..Len(g) |->
        LET lo == IF i - RollingWindow + 1 > 1 THEN i - RollingWindow + 1 ELSE 1
        IN  [smoothed |-> FracMean([j \in 1..(i - lo + 1) |-> g[lo + j - 1].compound])]
                @@ g[i]]

\* line 152: groupby("source")["compound"].transform(rolling(3, min_periods=1).mean())
Rolling(g) ==
    [i \in 1..Len(g) |->
        LET first == CHOOSE j \in 1..i :
                        /\ g[j].source = g[i].source
                        /\ \A l \in 1..(j - 1) : g[l].source # g[i].source
            lo == IF i - RollingWindow + 1 > first THEN i - RollingWindow + 1 ELSE first
        IN  [smoothed |-> FracMean([j \in 1..(i - lo + 1) |-> g[lo + j - 1].compound])]
                @@ g[i]]

\* lines 142-152
TimeSeries(now) ==
    /\ pc = "scored"
    /\ now_utc' = now
    /\ LET cutoff == now - SecondsPerHour * lookback_hours
           window == SelectSeq(scored, LAMBDA r : InWindow(r.published_dt, cutoff, now))
           kept == IF exclude_imputed
                   THEN SelectSeq(window, LAMBDA r : ~r.imputed_time)
                   ELSE window
           bucketed == [i \in 1..Len(kept) |->
                           [bucket |-> Floor(kept[i].published_dt, bin_size)] @@ kept[i]]
       IN  IF kept # <<>>
           THEN /\ tmp' = bucketed
                /\ ts' = Rolling(GroupMean(bucketed))
           ELSE /\ tmp' = kept
                /\ ts' = ts
    /\ pc' = "by_source"
    /\ UNCHANGED <<fetchVars, df, sidebarVars, vader, scored,
                   lookback_hours, bin_size, exclude_imputed, by_src>>

\* lines 169-174, before the sort: one row per source, in ascending order
GroupAgg(s) ==
    LET names == SortedNames({s[i].source : i \in 1..Len(s)})
    IN  [g \in 1..Len(names) |->
            LET members == SelectSeq(s, LAMBDA r : r.source = names[g])
            IN  [source |-> names[g],
                 Headlines |-> Len(members),
                 Avg_Compound |-> Mean([i \in 1..Len(members) |-> members[i].compound]),
                 Positives |-> Len(SelectSeq(members, LAMBDA r : r.label = "positive")),
                 Negatives |-> Len(SelectSeq(members, LAMBDA r : r.label = "negative"))]]

RowOrders(n) == {p \in [1..n -> 1..n] : \A i, j \in 1..n : i # j => p[i] # p[j]}

\* line 174: sort_values("Avg_Compound", ascending=False) with the default
\* kind="quicksort", which is not stable: rows of equal Avg_Compound come in
\* whatever order the sort of the build leaves them
SortValuesDescending(g) ==
    {[i \in 1..Len(g) |-> g[p[i]]] : p \in
        {q \in RowOrders(Len(g)) :
            \A i \in 1..(Len(g) - 1) :
                ~FracLess(g[q[i]].Avg_Compound, g[q[i + 1]].Avg_Compound)}}

\* lines 169-175
BySource ==
    /\ pc = "by_source"
    /\ by_src' \in SortValuesDescending(GroupAgg(scored))
    /\ pc' = "done"
    /\ UNCHANGED <<fetchVars, df, sidebarVars, vader, scored,
                   lookback_hours, bin_size, exclude_imputed, now_utc, tmp, ts>>

---------------------------------------------------------------------------
(* SpecAgg: main from the call of score_sentiment to the per-source table. *)
(* No step reads the order of the rows of the frame (the groups are sorted *)
(* by key and a mean does not depend on order), so the frames are drawn    *)
(* with their rows in ascending order of the kind of row.                  *)

\* line 84, value=-0.05 and line 85, value=0.05
DefaultNegThresh == -(5 * SliderStep)

DefaultPosThresh == 5 * SliderStep

\* line 88: from 1 to 72 hours
LookbackMin == 1

LookbackMax == 72

LookbackValues == LookbackMin..Min(MaxLookback, LookbackMax)

BinNames == DOMAIN BinSeconds

\* an hour boundary late enough for every cutoff to be positive
HourMark == SecondsPerHour * (MaxLookback + 1)

AggNow == HourMark + 1000

\* the now of the batch, earlier than the now of the time series block
BatchNow == AggNow - 100

NonDecreasing(f) == \A i \in 1..(Len(f) - 1) : f[i] <= f[i + 1]

BucketTimes == <<HourMark + 61, HourMark + 300, HourMark + 662, HourMark + 900>>

BucketCompounds == <<-20, 20>>

ExampleCompounds == {-20, 20, 40, 60}

\* frames of dated headlines of two sources, all inside the window
InitBuckets ==
    /\ \E n \in 1..MaxRows :
          \E f \in [1..n -> 0..15] :
              /\ NonDecreasing(f)
              /\ df = [i \in 1..n |->
                         PlainRow(i, SOURCES[(f[i] \div 8) + 1],
                                  BucketTimes[((f[i] \div 2) % 4) + 1], FALSE)]
              /\ vader = [t \in {TitleNo(i) : i \in 1..n} |->
                            BucketCompounds[(f[Len(t)] % 2) + 1]]
    /\ lookback_hours = LookbackMin
    /\ bin_size \in BinNames
    /\ exclude_imputed = TRUE

\* frames of one source with one headline in each of four buckets
InitExample ==
    /\ df = [i \in 1..4 |-> PlainRow(i, SOURCES[2], BucketTimes[i], FALSE)]
    /\ vader \in [{TitleNo(i) : i \in 1..4} -> ExampleCompounds]
    /\ lookback_hours = LookbackMin
    /\ bin_size \in BinNames
    /\ exclude_imputed = TRUE

\* times on both sides of the two ends of every window, and the now of the
\* batch, which is the time of every imputed row
WindowTimes ==
    {AggNow - SecondsPerHour * h - d : h \in LookbackValues, d \in {0, 1}}
        \cup {AggNow, AggNow + 1, BatchNow}

WindowRowKinds ==
    {2 * t : t \in WindowTimes} \cup {2 * BatchNow + 1}

\* frames of one source whose rows lie around the ends of the window
InitWindow ==
    /\ \E n \in 1..MaxWindowRows :
          \E f \in [1..n -> WindowRowKinds] :
              /\ NonDecreasing(f)
              /\ df = [i \in 1..n |->
                         PlainRow(i, SOURCES[1], f[i] \div 2, f[i] % 2 = 1)]
              /\ vader = [t \in {TitleNo(i) : i \in 1..n} |-> 20]
    /\ lookback_hours \in LookbackValues
    /\ bin_size \in BinNames
    /\ exclude_imputed \in BOOLEAN

InitAgg ==
    /\ pc = "score"
    /\ sources = SOURCES
    /\ feed = <<>>
    /\ fetch_now = BatchNow
    /\ selected = SOURCES
    /\ kw = <<>>
    /\ neg_thresh = DefaultNegThresh
    /\ pos_thresh = DefaultPosThresh
    /\ scored = <<>>
    /\ now_utc = NaT
    /\ tmp = <<>>
    /\ ts = <<>>
    /\ by_src = <<>>
    /\ (InitBuckets \/ InitExample \/ InitWindow)

NextAgg ==
    \/ Score
    \/ TimeSeries(AggNow)
    \/ BySource

SpecAgg == InitAgg /\ [][NextAgg]_vars

Ran == pc \in {"by_source", "done"}

Cutoff == now_utc - 3600 * lookback_hours

\* the rows of scored that the window and the checkbox let through
Eligible ==
    {i \in 1..Len(scored) :
        /\ Cutoff <= scored[i].published_dt
        /\ scored[i].published_dt <= now_utc
        /\ exclude_imputed => ~scored[i].imputed_time}

\* C5: the rows that feed the bucket series are exactly the rows inside the
\* closed window [now - lookback_hours, now], less the imputed ones when
\* exclude_imputed is set
C5_WindowFilter ==
    Ran =>
        /\ Len(tmp) = Cardinality(Eligible)
        /\ {tmp[j].title : j \in 1..Len(tmp)} = {scored[i].title : i \in Eligible}
        /\ \A b \in 1..Len(ts) :
              \E i \in Eligible :
                  /\ scored[i].source = ts[b].source
                  /\ ts[b].bucket <= scored[i].published_dt
                  /\ scored[i].published_dt < ts[b].bucket + BinSeconds[bin_size]
        /\ \A i \in Eligible : \E b \in 1..Len(ts) : ts[b].source = scored[i].source
        /\ exclude_imputed => \A j \in 1..Len(tmp) : ~tmp[j].imputed_time

\* with the checkbox set, an imputed row inside the window is left out and
\* rows exactly at the cutoff and exactly at now are kept
C5_Witness ==
    /\ Ran
    /\ exclude_imputed
    /\ \E i \in 1..Len(scored) :
          /\ scored[i].imputed_time
          /\ scored[i].published_dt > Cutoff /\ scored[i].published_dt < now_utc
          /\ \A j \in 1..Len(tmp) : tmp[j].title # scored[i].title
    /\ \E j \in 1..Len(tmp) : tmp[j].published_dt = Cutoff
    /\ \E j \in 1..Len(tmp) : tmp[j].published_dt = now_utc

Group(b) == {j \in 1..Len(tmp) : tmp[j].source = ts[b].source /\ tmp[j].bucket = ts[b].bucket}

RECURSIVE SumCompounds(_)
SumCompounds(J) ==
    IF J = {} THEN 0
    ELSE LET j == CHOOSE x \in J : TRUE IN tmp[j].compound + SumCompounds(J \ {j})

\* C6: bucket_start is the greatest multiple of the bin size not above
\* published_dt, the series has exactly one bucket per (source, bucket_start)
\* pair of the filtered rows, and its mean is the mean of that pair's rows
C6_BucketMeans ==
    Ran =>
        /\ \A j \in 1..Len(tmp) :
              /\ tmp[j].bucket % BinSeconds[bin_size] = 0
              /\ tmp[j].bucket <= tmp[j].published_dt
              /\ tmp[j].published_dt < tmp[j].bucket + BinSeconds[bin_size]
        /\ {<<ts[b].source, ts[b].bucket>> : b \in 1..Len(ts)}
              = {<<tmp[j].source, tmp[j].bucket>> : j \in 1..Len(tmp)}
        /\ \A a, b \in 1..Len(ts) :
              (ts[a].source = ts[b].source /\ ts[a].bucket = ts[b].bucket) => a = b
        /\ \A b \in 1..Len(ts) :
              ts[b].compound[1] * Cardinality(Group(b))
                  = SumCompounds(Group(b)) * ts[b].compound[2]

\* two rows of different times and compounds share a bucket while a row of
\* another source with the same bucket start has a bucket of its own
C6_Witness ==
    /\ Ran
    /\ \E i, j, l \in 1..Len(tmp) :
          /\ tmp[i].source = tmp[j].source
          /\ tmp[i].bucket = tmp[j].bucket
          /\ tmp[i].published_dt # tmp[j].published_dt
          /\ tmp[i].compound # tmp[j].compound
          /\ tmp[i].bucket # tmp[i].published_dt
          /\ tmp[l].source # tmp[i].source
          /\ tmp[l].bucket = tmp[i].bucket

\* the buckets of the source of b that are b or among the two before it
Trailing(b) ==
    {a \in 1..Len(ts) :
        /\ ts[a].source = ts[b].source
        /\ ts[a].bucket <= ts[b].bucket
        /\ Cardinality({c \in 1..Len(ts) :
                          /\ ts[c].source = ts[b].source
                          /\ ts[c].bucket > ts[a].bucket
                          /\ ts[c].bucket <= ts[b].bucket}) <= 2}

RECURSIVE SumMeans(_)
SumMeans(A) ==
    IF A = {} THEN <<0, 1>>
    ELSE LET a == CHOOSE x \in A : TRUE IN FracAdd(ts[a].compound, SumMeans(A \ {a}))

\* a fraction of units of 0.005, rounded to four decimals, in ten-thousandths
Round4(f) == (100 * f[1] + f[2]) \div (2 * f[2])

\* C7: the smoothed value of a bucket is the mean of the means of that
\* bucket and of up to two buckets before it, of the same source only; the
\* means 0.10, 0.20, -0.10, 0.30 give 0.10, 0.15, 0.0667, 0.1333
C7_TrailingMean ==
    Ran =>
        /\ \A b \in 1..Len(ts) :
              LET s == SumMeans(Trailing(b))
              IN  ts[b].smoothed[1] * s[2] * Cardinality(Trailing(b))
                      = s[1] * ts[b].smoothed[2]
        /\ (/\ Len(ts) = 4
            /\ \A a \in 1..4 : ts[a].source = ts[1].source
            /\ [b \in 1..4 |-> ts[b].compound] = <<<<20, 1>>, <<40, 1>>, <<-20, 1>>, <<60, 1>>>>)
              => [b \in 1..4 |-> Round4(ts[b].smoothed)] = <<1000, 1500, 667, 1333>>

\* the four buckets of the example
C7_Witness ==
    /\ Ran
    /\ Len(ts) = 4
    /\ [b \in 1..4 |-> ts[b].compound] = <<<<20, 1>>, <<40, 1>>, <<-20, 1>>, <<60, 1>>>>
    /\ [b \in 1..4 |-> ts[b].smoothed] = <<<<20, 1>>, <<30, 1>>, <<40, 3>>, <<80, 3>>>>

\* C8: the per-source table has one row per source of the scored frame, in
\* descending order of avg_compound, equal averages in ascending order of
\* the name of the source
C8_SourceRanking ==
    pc = "done" =>
        /\ {by_src[i].source : i \in 1..Len(by_src)} = {scored[i].source : i \in 1..Len(scored)}
        /\ \A i, j \in 1..Len(by_src) : by_src[i].source = by_src[j].source => i = j
        /\ \A i, j \in 1..Len(by_src) :
              i < j =>
                  \/ FracLess(by_src[j].Avg_Compound, by_src[i].Avg_Compound)
                  \/ /\ by_src[i].Avg_Compound = by_src[j].Avg_Compound
                     /\ Rank(by_src[i].source) < Rank(by_src[j].source)

====
